---------------------------- MODULE Spec2Model ----------------------------
(***************************************************************************)
(* A model of software/py/vanilla_stats_parser.py: the CudaStatTag decoder *)
(* and the VanillaStatsParser constructor (header parse, row read, the     *)
(* start/end fold of __generate_tile_stats, the manycore rollup) followed  *)
(* by the report step of the main program.                                 *)
(***************************************************************************)
EXTENDS Integers, Sequences, FiniteSets, TLC

(***************************************************************************)
(* Bounds of the model.                                                    *)
(***************************************************************************)
\* the longest list of traces the fold is run over
MaxTraces == 3
\* the largest counter value a row carries
MaxCount == 1

\* 1 << n
RECURSIVE Shl1(_)
Shl1(n) == IF n = 0 THEN 1 ELSE 2 * Shl1(n - 1)
Pow2Table == [n \in 0..30 |-> Shl1(n)]
Pow2(n) == Pow2Table[n]

(***************************************************************************)
(* Python's integers are unbounded and a tag fills 32 bits, one more than  *)
(* a signed 32-bit integer holds.  A number n is therefore kept as         *)
(* <<hi, lo>> with n = hi * 2^30 + lo and 0 <= lo < 2^30.                  *)
(***************************************************************************)
Limb == Pow2(30)
Num(v) == << v \div Limb, v % Limb >>
Zero == << 0, 0 >>
NAdd(a, b) == << a[1] + b[1] + ((a[2] + b[2]) \div Limb), (a[2] + b[2]) % Limb >>
NSub(a, b) == << a[1] - b[1] + ((a[2] - b[2]) \div Limb), (a[2] - b[2]) % Limb >>
NPos(a) == a[1] > 0 \/ (a[1] = 0 /\ a[2] > 0)
NNeg(a) == a[1] < 0
\* a number known to be small, as an integer
Small(a) == a[1] * Limb + a[2]

(***************************************************************************)
(* CudaStatTag: the bit layout of a print_stat tag.                        *)
(***************************************************************************)

_TAG_WIDTH == 4
_TAG_INDEX == 0
_TAG_MASK == Pow2(_TAG_WIDTH) - 1
_TG_ID_WIDTH == 14
_TG_ID_INDEX == _TAG_WIDTH + _TAG_INDEX
_TG_ID_MASK == Pow2(_TG_ID_WIDTH) - 1
_X_WIDTH == 6
_X_MASK == Pow2(_X_WIDTH) - 1
_X_INDEX == _TG_ID_WIDTH + _TG_ID_INDEX
_Y_WIDTH == 6
_Y_INDEX == _X_WIDTH + _X_INDEX
_Y_MASK == Pow2(_Y_WIDTH) - 1
_TYPE_WIDTH == 2
_TYPE_INDEX == _Y_WIDTH + _Y_INDEX
_TYPE_MASK == Pow2(_TYPE_WIDTH) - 1

\* (s >> index) & mask, for a mask of the form 2^w - 1
Field(s, index, mask) ==
  IF index >= 30
    THEN (s[1] \div Pow2(index - 30)) % (mask + 1)
    ELSE ((s[2] \div Pow2(index))
            + (IF Pow2(30 - index) >= mask + 1
                 THEN 0 ELSE (s[1] % (mask + 1)) * Pow2(30 - index)))
         % (mask + 1)

\* the members of the StatType enumeration
STAT == 0
START == 1
END == 2
StatType == {STAT, START, END}

\* StatType(v): the enumeration lookup raises ValueError outside its members
TypeOf(s) == Field(s, _TYPE_INDEX, _TYPE_MASK)
\* an enumeration that takes every code
ValidTagAny(s) == TypeOf(s) \in 0..3
ValidTag(s) == TypeOf(s) \in StatType

TagOf(s) == Field(s, _TAG_INDEX, _TAG_MASK)
\* the tile group id cut with the mask of a coordinate
TgIdOfNarrow(s) == Field(s, _TG_ID_INDEX, _X_MASK)
TgIdOf(s) == Field(s, _TG_ID_INDEX, _TG_ID_MASK)
XOf(s) == Field(s, _X_INDEX, _X_MASK)
YOf(s) == Field(s, _Y_INDEX, _Y_MASK)

\* CudaStatTag(tag): the object, or "error" when the constructor raises
CudaStatTag(s) ==
  IF ValidTag(s)
    THEN [statType |-> TypeOf(s), y |-> YOf(s), x |-> XOf(s),
          tg_id |-> TgIdOf(s), tag |-> TagOf(s)]
    ELSE "error"

isStart(c) == c.statType = START
isEnd(c) == c.statType = END
isStat(c) == c.statType = STAT

\* the packing done by bsg_cuda_print_stat, as the class comment lays it out
PackTag(type, y, x, tg_id, tag) ==
  NAdd(<< type * Pow2(_TYPE_INDEX - 30), 0 >>,
       Num(y * Pow2(_Y_INDEX) + x * Pow2(_X_INDEX)
             + tg_id * Pow2(_TG_ID_INDEX) + tag * Pow2(_TAG_INDEX)))

(***************************************************************************)
(* collections.Counter: a mapping whose missing keys read as 0.            *)
(***************************************************************************)
EmptyCounter == [k \in {} |-> Zero]

Get(c, k) == IF k \in DOMAIN c THEN c[k] ELSE Zero

\* c[k] = v
Put(c, k, v) ==
  IF k \in DOMAIN c THEN [c EXCEPT ![k] = v]
  ELSE [j \in (DOMAIN c) \cup {k} |-> IF j = k THEN v ELSE c[j]]

\* bool(c): a Counter is true when it holds a key
Truthy(c) == DOMAIN c # {}

\* Counter.__sub__: "a - b" keeps only the positive counts
\* a subtraction that keeps the zero and the negative counts
CounterSubPlain(a, b) ==
  [k \in (DOMAIN a) \cup (DOMAIN b) |-> NSub(Get(a, k), Get(b, k))]

CounterSub(a, b) ==
  LET pos == {k \in DOMAIN a : NPos(NSub(a[k], Get(b, k)))}
      neg == {k \in (DOMAIN b) \ (DOMAIN a) : NNeg(b[k])}
  IN  [k \in pos \cup neg |->
         IF k \in pos THEN NSub(a[k], Get(b, k)) ELSE NSub(Zero, b[k])]


(***************************************************************************)
(* Sequence helpers.                                                       *)
(***************************************************************************)
Range(s) == {s[i] : i \in 1..Len(s)}

\* list.index(op)
IndexOf(s, e) == CHOOSE i \in 1..Len(s) : s[i] = e /\ \A j \in 1..(i - 1) : s[j] # e

(***************************************************************************)
(* Column names.  A name is kept as <<prefix, rest>>, so that              *)
(* item.startswith('instr_') is a test of its first component.             *)
(***************************************************************************)
OpY == <<"", "y">>
OpX == <<"", "x">>
OpTag == <<"", "tag">>
InstrTotal == <<"instr_", "total">>
StallTotal == <<"stall_", "total">>
MissTotal == <<"miss_", "total">>

startswith(item, prefix) == item[1] = prefix

\* parse_header: the column names by kind, in header order
parse_header(h) ==
  [instrs |-> SelectSeq(h, LAMBDA item :
                 startswith(item, "instr_") /\ item # InstrTotal),
   misses |-> SelectSeq(h, LAMBDA item : startswith(item, "miss_")),
   stalls |-> SelectSeq(h, LAMBDA item : startswith(item, "stall_")),
   stats  |-> SelectSeq(h, LAMBDA item :
                 /\ ~startswith(item, "instr_")
                 /\ ~startswith(item, "miss_")
                 /\ ~startswith(item, "stall_"))]

\* self.all_ops = self.stats + self.instrs + self.misses + self.stalls
AllOpsOf(h) ==
  parse_header(h).stats \o parse_header(h).instrs
    \o parse_header(h).misses \o parse_header(h).stalls

(***************************************************************************)
(* The input files the model is run on.                                    *)
(***************************************************************************)
\* a header as the profiler writes it: instr_total is its only total column
HeaderPlain ==
  << OpY, OpX, OpTag, InstrTotal, <<"instr_", "add">>, <<"instr_", "mul">>,
     <<"miss_", "icache">>, <<"stall_", "md">> >>
\* a header that also carries a miss_total column
HeaderMissTotal ==
  << OpY, OpX, OpTag, <<"miss_", "icache">>, MissTotal, <<"stall_", "md">> >>
Headers == {HeaderPlain, HeaderMissTotal}

\* the mesh the parser is constructed for (--dim-y, --dim-x)
manycore_dim_y == 1
manycore_dim_x == 2

\* Default coordinates of origin tile
_BSG_ORIGIN_X == 0
_BSG_ORIGIN_Y == 1

\* self.max_tags: one slot per value of the tag field
max_tags == Pow2(_TAG_WIDTH)
\* the largest tag a row carries; the per-tag lists, of self.max_tags slots
\* in the program, are kept up to this tag
MaxTag == 1
TagSpace == 0..MaxTag
YSpace == 0..(manycore_dim_y - 1)
XSpace == 0..(manycore_dim_x - 1)

\* the largest tile group id a row carries; the per-tile-group lists, of
\* self.max_tile_groups slots in the program, are kept up to this id
MaxTgId == 1
TgIdSpace == 0..MaxTgId
InputTgIds == {0, MaxTgId}

\* the counter values of a row, laid over its counter columns in turn
RowLow == << 0, MaxCount >>
RowHigh == << MaxCount, MaxCount >>
Rows == { RowLow, RowHigh }

\* one line of the csv file after int(): a value for every column of all_ops
MakeTrace(ops, type, y, x, tg_id, tag, row) ==
  [op \in Range(ops) |->
     IF op = OpY THEN Num(y)
     ELSE IF op = OpX THEN Num(x)
     ELSE IF op = OpTag THEN PackTag(type, y, x, tg_id, tag)
     ELSE Num(row[(IndexOf(ops, op) % Len(row)) + 1])]

\* a start with the low row and an end with the high row
Pair(ops, y, x, tg_id, tag) ==
  { MakeTrace(ops, START, y, x, tg_id, tag, RowLow),
    MakeTrace(ops, END, y, x, tg_id, tag, RowHigh) }

\* start and end rows of the origin tile, of either tile group
OriginTraces(ops) ==
  { MakeTrace(ops, type, _BSG_ORIGIN_Y, _BSG_ORIGIN_X, tg_id, 0, row) :
      type \in {START, END}, tg_id \in InputTgIds, row \in Rows }
\* rows of the tile next to it, of a second tag, and of the row above the
\* origin row
OtherTraces(ops) ==
  Pair(ops, _BSG_ORIGIN_Y, _BSG_ORIGIN_X + 1, MaxTgId, 0)
    \cup Pair(ops, _BSG_ORIGIN_Y, _BSG_ORIGIN_X, 0, MaxTag)
    \cup Pair(ops, _BSG_ORIGIN_Y - 1, _BSG_ORIGIN_X, 0, 0)
\* a stand-alone stat row, a row whose type field holds the unused code 3,
\* and a row of a tile beyond the mesh
OddTraces(ops) ==
  { MakeTrace(ops, STAT, _BSG_ORIGIN_Y, _BSG_ORIGIN_X, 0, 0, RowLow),
    MakeTrace(ops, 3, _BSG_ORIGIN_Y, _BSG_ORIGIN_X, 0, 0, RowLow),
    MakeTrace(ops, START, _BSG_ORIGIN_Y + manycore_dim_y, _BSG_ORIGIN_X,
              0, 0, RowLow) }

InputTraces(ops) == OriginTraces(ops) \cup OtherTraces(ops) \cup OddTraces(ops)

\* the rows a file of each header can hold
TracesByHeader == [h \in Headers |-> InputTraces(AllOpsOf(h))]

(***************************************************************************)
(* Loops over a list of operations.                                        *)
(***************************************************************************)
\* for op in ops: c[op] = src[op]
RECURSIVE AssignOps(_, _, _, _)
AssignOps(c, ops, src, i) ==
  IF i > Len(ops) THEN c
  ELSE AssignOps(Put(c, ops[i], Get(src, ops[i])), ops, src, i + 1)

\* for op in ops: c[op] += src[op]; a key that c lacks reads as 0
RECURSIVE AddOps(_, _, _, _)
AddOps(c, ops, src, i) ==
  IF i > Len(ops) THEN c
  ELSE IF ops[i] \in DOMAIN c
    THEN AddOps([c EXCEPT ![ops[i]] = NAdd(@, Get(src, ops[i]))], ops, src, i + 1)
    ELSE AddOps(Put(c, ops[i], Get(src, ops[i])), ops, src, i + 1)

\* for op in ops: c[total] += c[op]
RECURSIVE SumInto(_, _, _, _)
SumInto(c, total, ops, i) ==
  IF i > Len(ops) THEN c
  ELSE SumInto(Put(c, total, NAdd(Get(c, total), Get(c, ops[i]))), total, ops, i + 1)

\* a list index: negative indices count from the end, -1 stands for IndexError
PyIndex(i, n) ==
  IF i >= 0 /\ i < n THEN i
  ELSE IF i < 0 /\ i >= 0 - n THEN n + i
  ELSE 0 - 1

(***************************************************************************)
(* The state of a run.                                                     *)
(***************************************************************************)
VARIABLES
  pc,                     \* where the program is
  header,                 \* the fieldnames of the input file
  stats, instrs, misses, stalls, all_ops,   \* self.stats ... self.all_ops
  idx,                    \* the number of traces the fold has taken
  tag_credits,            \* [tag][y][x]
  tile_stat_start,        \* [tag][y][x] Counter
  tile_stat_end,          \* [tag][y][x] Counter
  tile_group_stat_start,  \* [tag][tg_id] Counter
  tile_group_stat_end,    \* [tag][tg_id] Counter
  num_tags,
  num_tile_groups,        \* [tag]
  tile_stat,              \* [tag][y][x] Counter
  tile_group_stat,        \* [tag][tg_id] Counter
  manycore_stat,          \* [tag] Counter
  missing_start,          \* [tag][y][x] the "missing start stat" lines printed
  missing_end,            \* [tag][y][x] the counts of the "missing end" lines
  st,                     \* the parser object of the main program
  report_written,         \* print_manycore_stats_all has run
  print_stat,             \* the fields a tile packs into a tag
  cst,                    \* the CudaStatTag made of them
  hist,                   \* history: the start and end traces folded, by key
  raised                  \* history: the exception that ended the run

vars ==
  << pc, header, stats, instrs, misses, stalls, all_ops, idx, tag_credits,
     tile_stat_start, tile_stat_end, tile_group_stat_start,
     tile_group_stat_end, num_tags, num_tile_groups, tile_stat,
     tile_group_stat, manycore_stat, missing_start, missing_end, st,
     report_written, print_stat, cst, hist, raised >>

\* what the run is given
file == << header, print_stat, cst >>
schema == << stats, instrs, misses, stalls, all_ops >>
locals ==
  << tag_credits, tile_stat_start, tile_stat_end, tile_group_stat_start,
     tile_group_stat_end, num_tags, num_tile_groups >>
tables == << tile_stat, tile_group_stat, manycore_stat >>

\* self.max_tile_groups
max_tile_groups == Pow2(_TG_ID_WIDTH)

PerTile(v) == [tag \in TagSpace |-> [y \in YSpace |-> [x \in XSpace |-> v]]]
PerTileGroup(v) == [tag \in TagSpace |-> [tg_id \in TgIdSpace |-> v]]

\* the lists and tables __generate_tile_stats starts from
LocalsInit ==
  /\ tag_credits = PerTile(0)
  /\ tile_stat_start = PerTile(EmptyCounter)
  /\ tile_stat_end = PerTile(EmptyCounter)
  /\ tile_group_stat_start = PerTileGroup(EmptyCounter)
  /\ tile_group_stat_end = PerTileGroup(EmptyCounter)
  /\ num_tags = 0
  /\ num_tile_groups = [tag \in TagSpace |-> 0]

\* __init__ up to the reading of the rows
Init ==
  /\ pc = "read"
  /\ header \in Headers
  /\ stats = parse_header(header).stats
  /\ instrs = parse_header(header).instrs
  /\ misses = parse_header(header).misses
  /\ stalls = parse_header(header).stalls
  /\ all_ops = AllOpsOf(header)
  /\ idx = 0
  /\ LocalsInit
  /\ tile_stat = PerTile(EmptyCounter)
  /\ tile_group_stat = PerTileGroup(EmptyCounter)
  /\ manycore_stat = [tag \in TagSpace |-> EmptyCounter]
  /\ missing_start = PerTile(0)
  /\ missing_end = PerTile(<< >>)
  /\ st = "unbound"
  /\ report_written = FALSE
  /\ print_stat = "none"
  /\ cst = "none"
  /\ hist = PerTile(<< >>)
  /\ raised = "none"

\* an exception that is caught where it is raised: the fold goes on
RaiseSwallowed(exception) ==
  /\ pc' = "fold"
  /\ raised' = exception
  /\ UNCHANGED << file, schema, locals, tables, missing_start, missing_end,
                  st, report_written >>

\* an exception leaves __init__: the frame of the fold is gone
Raise(exception) ==
  /\ pc' = "error"
  /\ raised' = exception
  /\ tag_credits' = PerTile(0)
  /\ tile_stat_start' = PerTile(EmptyCounter)
  /\ tile_stat_end' = PerTile(EmptyCounter)
  /\ tile_group_stat_start' = PerTileGroup(EmptyCounter)
  /\ tile_group_stat_end' = PerTileGroup(EmptyCounter)
  /\ num_tags' = 0
  /\ num_tile_groups' = [tag \in TagSpace |-> 0]
  /\ UNCHANGED << file, schema, tables, missing_start, missing_end, st,
                  report_written >>

\* every row of the file converts: self.traces is built
ReadRows ==
  /\ pc = "read"
  /\ pc' = "fold"
  /\ UNCHANGED << file, schema, idx, locals, tables, missing_start,
                  missing_end, st, report_written, hist, raised >>

\* int(row[op]) raises on a row with a missing or non-integer field
ReadMalformedRow ==
  /\ pc = "read"
  /\ Raise("ValueError")
  /\ UNCHANGED << idx, hist >>

(***************************************************************************)
(* __generate_tile_stats: the loop over the traces.                        *)
(***************************************************************************)
relative_y(trace) == Small(trace[OpY]) - _BSG_ORIGIN_Y
relative_x(trace) == Small(trace[OpX]) - _BSG_ORIGIN_X

\* the row and column of the lists that the trace's coordinates select
RowOf(trace) == PyIndex(relative_y(trace), manycore_dim_y)
ColOf(trace) == PyIndex(relative_x(trace), manycore_dim_x)
OnMesh(trace) == RowOf(trace) >= 0 /\ ColOf(trace) >= 0

\* "not tile_group_stat_start[cst.tag]": a list is false only when empty
TagUnseen(tag) == ~(max_tile_groups > 0)

\* the test made on the first tile group of the tag, whatever the trace's
TileGroupUnseenFirst(tag, tg_id) == ~Truthy(tile_group_stat_start[tag][0])

\* "not tile_group_stat_start[cst.tag][cst.tg_id]": no key was stored yet
TileGroupUnseen(tag, tg_id) == ~Truthy(tile_group_stat_start[tag][tg_id])

\* "tag_credits[...] < 0" after the decrement
MissingStart(credit) == credit < 0

\* a line for every key whose credit is not 0
MissingEndNonZero(credit) == credit # 0

\* "tag_credits[tag][y][x] > 0" once the traces are consumed
MissingEnd(credit) == credit > 0

\* the next trace of the list is taken
Taken(trace) ==
  /\ pc = "fold"
  /\ idx < MaxTraces
  /\ idx' = idx + 1

Remember(trace) ==
  hist' = [hist EXCEPT ![TagOf(trace[OpTag])][RowOf(trace)][ColOf(trace)] =
             Append(@, trace)]

\* a start branch that opens a new window: the key's pending end is dropped
FoldStartNewWindow(trace) ==
  LET s == trace[OpTag]
      tag == TagOf(s)
      tg_id == TgIdOf(s)
      y == RowOf(trace)
      x == ColOf(trace)
  IN  /\ Taken(trace)
      /\ ValidTag(s) /\ isStart(CudaStatTag(s)) /\ OnMesh(trace)
      /\ tag_credits' = [tag_credits EXCEPT ![tag][y][x] = @ + 1]
      /\ num_tags' = IF TagUnseen(tag) THEN num_tags + 1 ELSE num_tags
      /\ num_tile_groups' =
           IF TileGroupUnseen(tag, tg_id)
             THEN [num_tile_groups EXCEPT ![tag] = @ + 1]
             ELSE num_tile_groups
      /\ tile_stat_start' =
           [tile_stat_start EXCEPT ![tag][y][x] = AssignOps(@, all_ops, trace, 1)]
      /\ tile_group_stat_start' =
           [tile_group_stat_start EXCEPT ![tag][tg_id] = AddOps(@, all_ops, trace, 1)]
      /\ tile_stat_end' = [tile_stat_end EXCEPT ![tag][y][x] = EmptyCounter]
      /\ Remember(trace)
      /\ UNCHANGED << pc, file, schema, tile_group_stat_end,
                      tables, missing_start, missing_end, st, report_written,
                      raised >>

\* if(cst.isStart)
FoldStart(trace) ==
  LET s == trace[OpTag]
      tag == TagOf(s)
      tg_id == TgIdOf(s)
      y == RowOf(trace)
      x == ColOf(trace)
  IN  /\ Taken(trace)
      /\ ValidTag(s) /\ isStart(CudaStatTag(s)) /\ OnMesh(trace)
      /\ tag_credits' = [tag_credits EXCEPT ![tag][y][x] = @ + 1]
      /\ num_tags' = IF TagUnseen(tag) THEN num_tags + 1 ELSE num_tags
      /\ num_tile_groups' =
           IF TileGroupUnseen(tag, tg_id)
             THEN [num_tile_groups EXCEPT ![tag] = @ + 1]
             ELSE num_tile_groups
      /\ tile_stat_start' =
           [tile_stat_start EXCEPT ![tag][y][x] = AssignOps(@, all_ops, trace, 1)]
      /\ tile_group_stat_start' =
           [tile_group_stat_start EXCEPT ![tag][tg_id] = AddOps(@, all_ops, trace, 1)]
      /\ Remember(trace)
      /\ UNCHANGED << pc, file, schema, tile_stat_end, tile_group_stat_end,
                      tables, missing_start, missing_end, st, report_written,
                      raised >>

\* an end branch that sets a negative credit back to 0 after its warning
FoldEndReset(trace) ==
  LET s == trace[OpTag]
      tag == TagOf(s)
      tg_id == TgIdOf(s)
      y == RowOf(trace)
      x == ColOf(trace)
      credit == tag_credits[tag][y][x] - 1
  IN  /\ Taken(trace)
      /\ ValidTag(s) /\ isEnd(CudaStatTag(s)) /\ OnMesh(trace)
      /\ tag_credits' =
           [tag_credits EXCEPT ![tag][y][x] = IF credit < 0 THEN 0 ELSE credit]
      /\ missing_start' =
           IF MissingStart(credit)
             THEN [missing_start EXCEPT ![tag][y][x] = @ + 1]
             ELSE missing_start
      /\ tile_stat_end' =
           [tile_stat_end EXCEPT ![tag][y][x] = AssignOps(@, all_ops, trace, 1)]
      /\ tile_group_stat_end' =
           [tile_group_stat_end EXCEPT ![tag][tg_id] = AddOps(@, all_ops, trace, 1)]
      /\ Remember(trace)
      /\ UNCHANGED << pc, file, schema, tile_stat_start,
                      tile_group_stat_start, num_tags, num_tile_groups, tables,
                      missing_end, st, report_written, raised >>

\* elif (cst.isEnd)
FoldEnd(trace) ==
  LET s == trace[OpTag]
      tag == TagOf(s)
      tg_id == TgIdOf(s)
      y == RowOf(trace)
      x == ColOf(trace)
  IN  /\ Taken(trace)
      /\ ValidTag(s) /\ isEnd(CudaStatTag(s)) /\ OnMesh(trace)
      /\ tag_credits' = [tag_credits EXCEPT ![tag][y][x] = @ - 1]
      /\ missing_start' =
           IF MissingStart(tag_credits'[tag][y][x])
             THEN [missing_start EXCEPT ![tag][y][x] = @ + 1]
             ELSE missing_start
      /\ tile_stat_end' =
           [tile_stat_end EXCEPT ![tag][y][x] = AssignOps(@, all_ops, trace, 1)]
      /\ tile_group_stat_end' =
           [tile_group_stat_end EXCEPT ![tag][tg_id] = AddOps(@, all_ops, trace, 1)]
      /\ Remember(trace)
      /\ UNCHANGED << pc, file, schema, tile_stat_start,
                      tile_group_stat_start, num_tags, num_tile_groups, tables,
                      missing_end, st, report_written, raised >>

\* "else" in the place of "elif (cst.isEnd)": a stat is counted as an end
FoldStatAsEnd(trace) ==
  /\ Taken(trace)
  /\ ValidTag(trace[OpTag]) /\ isStat(CudaStatTag(trace[OpTag]))
  /\ OnMesh(trace)
  /\ tag_credits' =
       [tag_credits EXCEPT
          ![TagOf(trace[OpTag])][RowOf(trace)][ColOf(trace)] = @ - 1]
  /\ UNCHANGED << pc, file, schema, tile_stat_start, tile_stat_end,
                  tile_group_stat_start, tile_group_stat_end, num_tags,
                  num_tile_groups, tables, missing_start, missing_end, st,
                  report_written, hist, raised >>

\* a stand-alone stat: neither branch is taken
FoldStat(trace) ==
  /\ Taken(trace)
  /\ ValidTag(trace[OpTag]) /\ isStat(CudaStatTag(trace[OpTag]))
  /\ UNCHANGED << pc, file, schema, locals, tables, missing_start,
                  missing_end, st, report_written, hist, raised >>

\* CudaStatTag(trace["tag"]) raises ValueError: the type is no StatType
FoldBadType(trace) ==
  /\ Taken(trace)
  /\ ~ValidTag(trace[OpTag])
  /\ Raise("ValueError")
  /\ UNCHANGED hist

\* the first index into tag_credits raises IndexError
FoldOffMesh(trace) ==
  /\ Taken(trace)
  /\ ValidTag(trace[OpTag]) /\ ~isStat(CudaStatTag(trace[OpTag]))
  /\ ~OnMesh(trace)
  /\ Raise("IndexError")
  /\ UNCHANGED hist

(***************************************************************************)
(* __generate_tile_stats: after the loop.                                  *)
(***************************************************************************)
\* tile_stat_end[tag][y][x] - tile_stat_start[tag][y][x]
TileDelta(e, s) == CounterSub(e, s)

\* tile_group_stat_end[tag][tg_id] - tile_group_stat_start[tag][tg_id]
TileGroupDelta(e, s) == CounterSub(e, s)

\* range(num_tile_groups[tag])
TileGroupRange(n) == 0..(n - 1)

\* the instr_total, stall_total and miss_total of one Counter
WithTotals(c, ins, sts, mis) ==
  SumInto(SumInto(SumInto(c, InstrTotal, ins, 1), StallTotal, sts, 1),
          MissTotal, mis, 1)

\* the tail of __generate_tile_stats and the assignment of what it returns
GenerateTileStats ==
  /\ pc = "fold"
  /\ pc' = "rollup"
  /\ missing_end' =
       [tag \in TagSpace |-> [y \in YSpace |-> [x \in XSpace |->
          IF MissingEnd(tag_credits[tag][y][x])
            THEN << tag_credits[tag][y][x] >> ELSE << >> ]]]
  /\ tile_stat' =
       [tag \in TagSpace |-> [y \in YSpace |-> [x \in XSpace |->
          WithTotals(TileDelta(tile_stat_end[tag][y][x],
                               tile_stat_start[tag][y][x]),
                     instrs, stalls, misses) ]]]
  /\ tile_group_stat' =
       [tag \in TagSpace |-> [tg_id \in TgIdSpace |->
          IF tg_id \in TileGroupRange(num_tile_groups[tag])
            THEN WithTotals(TileGroupDelta(tile_group_stat_end[tag][tg_id],
                                           tile_group_stat_start[tag][tg_id]),
                            instrs, stalls, misses)
            ELSE EmptyCounter ]]
  /\ instrs' = instrs \o << InstrTotal >>
  /\ stalls' = stalls \o << StallTotal >>
  /\ misses' = misses \o << MissTotal >>
  /\ all_ops' = all_ops \o << InstrTotal, StallTotal, MissTotal >>
  /\ UNCHANGED << file, stats, idx, locals, manycore_stat, missing_start,
                  st, report_written, hist, raised >>

(***************************************************************************)
(* __generate_manycore_stats_all                                           *)
(***************************************************************************)
\* the tiles in the order of the loops: tile n is (n div dim_x, n mod dim_x)
manycore_dim == manycore_dim_y * manycore_dim_x

\* for y, for x, for op in ops: c[op] += ts[y][x][op], from tile n on
RECURSIVE SumTiles(_, _, _, _)
SumTiles(c, ts, ops, n) ==
  IF n >= manycore_dim THEN c
  ELSE SumTiles(AddOps(c, ops, ts[n \div manycore_dim_x][n % manycore_dim_x], 1),
                ts, ops, n + 1)

ManycoreOf(ts, ops) == SumTiles(EmptyCounter, ts, ops, 0)

\* self.manycore_stat is built and __init__ returns: st is bound
GenerateManycoreStats ==
  /\ pc = "rollup"
  /\ pc' = "built"
  /\ manycore_stat' = [tag \in TagSpace |-> ManycoreOf(tile_stat[tag], all_ops)]
  /\ st' = "bound"
  /\ UNCHANGED << file, schema, idx, locals, tile_stat, tile_group_stat,
                  missing_start, missing_end, report_written, hist, raised >>

\* main: st.print_manycore_stats_all()
PrintReports ==
  /\ pc = "built"
  /\ st = "bound"
  /\ pc' = "done"
  /\ report_written' = TRUE
  /\ UNCHANGED << file, schema, idx, locals, tables, missing_start,
                  missing_end, st, hist, raised >>

Next ==
  \/ ReadRows
  \/ ReadMalformedRow
  \/ \E trace \in TracesByHeader[header] : FoldStart(trace)
  \/ \E trace \in TracesByHeader[header] : FoldEnd(trace)
  \/ \E trace \in TracesByHeader[header] : FoldStat(trace)
  \/ \E trace \in TracesByHeader[header] : FoldBadType(trace)
  \/ \E trace \in TracesByHeader[header] : FoldOffMesh(trace)
  \/ GenerateTileStats
  \/ GenerateManycoreStats
  \/ PrintReports

Spec == Init /\ [][Next]_vars

(***************************************************************************)
(* The decoder on its own: a tag is packed from its fields and handed to   *)
(* CudaStatTag.                                                            *)
(***************************************************************************)
\* the values of each field the decoder is run on: both ends of its range
TypeCodes == 0..(Pow2(_TYPE_WIDTH) - 1)
Coords == {0, 1, _Y_MASK}
GroupIds == {0, 1, _TG_ID_MASK}
SmallTags == {0, 1, _TAG_MASK}

\* the integer of the csv file: the packed fields, with or without a bit
\* set above the 32 of a tag
RawTag(p) ==
  NAdd(PackTag(p.type, p.y, p.x, p.tg_id, p.tag), << 4 * p.over, 0 >>)

InitDecode ==
  /\ pc = "tag"
  /\ print_stat \in [type : TypeCodes, y : Coords, x : Coords,
                     tg_id : GroupIds, tag : SmallTags, over : {0, 1}]
  /\ cst = "none"
  /\ header = HeaderPlain
  /\ stats = parse_header(header).stats
  /\ instrs = parse_header(header).instrs
  /\ misses = parse_header(header).misses
  /\ stalls = parse_header(header).stalls
  /\ all_ops = AllOpsOf(header)
  /\ idx = 0
  /\ LocalsInit
  /\ tile_stat = PerTile(EmptyCounter)
  /\ tile_group_stat = PerTileGroup(EmptyCounter)
  /\ manycore_stat = [tag \in TagSpace |-> EmptyCounter]
  /\ missing_start = PerTile(0)
  /\ missing_end = PerTile(<< >>)
  /\ st = "unbound"
  /\ report_written = FALSE
  /\ hist = PerTile(<< >>)
  /\ raised = "none"

\* cst = CudaStatTag(tag)
ConstructTag ==
  /\ pc = "tag"
  /\ ValidTag(RawTag(print_stat))
  /\ cst' = CudaStatTag(RawTag(print_stat))
  /\ pc' = "decoded"
  /\ UNCHANGED << header, print_stat, schema, idx, locals, tables,
                  missing_start, missing_end, st, report_written, hist, raised >>

\* StatType(...) raises ValueError in the constructor
ConstructRaises ==
  /\ pc = "tag"
  /\ ~ValidTag(RawTag(print_stat))
  /\ Raise("ValueError")
  /\ UNCHANGED << idx, hist >>

NextDecode == ConstructTag \/ ConstructRaises

SpecDecode == InitDecode /\ [][NextDecode]_vars

(***************************************************************************)
(* What the properties are stated with.                                    *)
(***************************************************************************)
\* the operations of the schema, as built from the header
SchemaByHeader ==
  [h \in Headers |->
     [ops |-> Range(AllOpsOf(h)), instrs |-> parse_header(h).instrs,
      stalls |-> parse_header(h).stalls, misses |-> parse_header(h).misses]]
HeaderOps == SchemaByHeader[header].ops
HeaderInstrs == SchemaByHeader[header].instrs
HeaderStalls == SchemaByHeader[header].stalls
HeaderMisses == SchemaByHeader[header].misses

\* the names of the derived totals
TotalNames == {InstrTotal, StallTotal, MissTotal}

\* the traces are consumed and the tile tables are computed
Folded == pc \in {"rollup", "built", "done"}
\* the manycore table is computed as well
RolledUp == pc \in {"built", "done"}

IsStartTrace(trace) == TypeOf(trace[OpTag]) = START
IsEndTrace(trace) == TypeOf(trace[OpTag]) = END
Last(h) == h[Len(h)]

\* the number of traces of a key's history that satisfy Test
CountOf(h, Test(_)) == Len(SelectSeq(h, Test))
\* starts minus ends
Balance(h) == CountOf(h, IsStartTrace) - CountOf(h, IsEndTrace)

\* n when it is positive, else 0
Clamp(n) == IF NPos(n) THEN n ELSE Zero

\* the sum of c[op] over the operations of a list
RECURSIVE SumOf(_, _, _)
SumOf(c, ops, i) ==
  IF i > Len(ops) THEN Zero ELSE NAdd(Get(c, ops[i]), SumOf(c, ops, i + 1))

\* the sum of ts[y][x][op] over the tiles of the mesh, from tile n on
RECURSIVE TileSum(_, _, _)
TileSum(ts, op, n) ==
  IF n >= manycore_dim THEN Zero
  ELSE NAdd(Get(ts[n \div manycore_dim_x][n % manycore_dim_x], op),
            TileSum(ts, op, n + 1))

\* every start and end trace of a tag that was folded, tile after tile
RECURSIVE TracesOfTag(_, _)
TracesOfTag(tag, n) ==
  IF n >= manycore_dim THEN << >>
  ELSE hist[tag][n \div manycore_dim_x][n % manycore_dim_x]
         \o TracesOfTag(tag, n + 1)

\* the sum of op over the traces of a list that carry the type and tile group
RECURSIVE TraceSum(_, _, _, _, _)
TraceSum(h, type, tg_id, op, i) ==
  IF i > Len(h) THEN Zero
  ELSE NAdd(IF TypeOf(h[i][OpTag]) = type /\ TgIdOf(h[i][OpTag]) = tg_id
              THEN h[i][op] ELSE Zero,
            TraceSum(h, type, tg_id, op, i + 1))

\* a start or end trace of the tag carries the tile group
Observed(tag, tg_id) ==
  \E i \in 1..Len(TracesOfTag(tag, 0)) :
     TgIdOf(TracesOfTag(tag, 0)[i][OpTag]) = tg_id

(***************************************************************************)
(* C1 (exact pair): for a key whose traces are one start S followed by one *)
(* end E, the tile's value of every operation of the schema is E - S, its  *)
(* instr_total is the sum of its values over the instruction operations,   *)
(* and neither warning is printed for the key.  The program clamps a       *)
(* negative difference to 0 (see C9), so this fails when E < S.            *)
(***************************************************************************)
C1_ExactPair ==
  Folded =>
    \A tag \in TagSpace, y \in YSpace, x \in XSpace :
      LET h == hist[tag][y][x]
          t == tile_stat[tag][y][x]
      IN  (Len(h) = 2 /\ IsStartTrace(h[1]) /\ IsEndTrace(h[2])) =>
            /\ \A op \in HeaderOps : Get(t, op) = NSub(h[2][op], h[1][op])
            /\ Get(t, InstrTotal) = SumOf(t, HeaderInstrs, 1)
            /\ missing_start[tag][y][x] = 0
            /\ missing_end[tag][y][x] = << >>

(***************************************************************************)
(* C2 (rollup sum): once the manycore table is built, its value of every   *)
(* operation, the derived totals included, is for every tag the sum of the *)
(* tiles' values of that operation.  It fails for a header that carries a  *)
(* miss_total column (see C10): all_ops then names miss_total twice and    *)
(* the manycore value is twice the sum.                                    *)
(***************************************************************************)
C2_RollupSum ==
  RolledUp =>
    \A tag \in TagSpace :
      \A op \in Range(all_ops) \cup {InstrTotal, StallTotal, MissTotal} :
        Get(manycore_stat[tag], op) = TileSum(tile_stat[tag], op, 0)

(***************************************************************************)
(* C3 (work-group accumulation): for every tag and tile group that a start *)
(* or end trace carries, the tile group's value of every operation of the  *)
(* schema is the sum over its end traces minus the sum over its start      *)
(* traces.  It is stated here for the pairs whose difference is not        *)
(* negative on any operation, so that the clamping of C9 plays no part: it *)
(* fails because only the ids below the number of ids seen on starts are   *)
(* computed.                                                               *)
(***************************************************************************)
C3_WorkGroupAccumulation ==
  Folded =>
    \A tag \in TagSpace, tg_id \in TgIdSpace :
      LET h == TracesOfTag(tag, 0)
          Diff(op) == NSub(TraceSum(h, END, tg_id, op, 1),
                           TraceSum(h, START, tg_id, op, 1))
      IN  (Observed(tag, tg_id) /\ \A op \in HeaderOps : ~NNeg(Diff(op))) =>
            \A op \in HeaderOps :
              Get(tile_group_stat[tag][tg_id], op) = Diff(op)

(***************************************************************************)
(* C4 (missing start): a step that folds an end trace prints a "missing    *)
(* start stat" line for the trace's key exactly when the key's credit is   *)
(* negative after the decrement, and leaves the fold ready for the next    *)
(* trace; and once the traces are consumed, the tile of a key that has end *)
(* traces and no start trace holds, for every operation of the schema, the *)
(* value of the key's last end trace.  The last part fails for a header   *)
(* that carries a miss_total column (see C10): the tile's miss_total is    *)
(* then overwritten by the derived total.                                  *)
(***************************************************************************)
C4_EndStep ==
  \A tag \in TagSpace, y \in YSpace, x \in XSpace :
    (/\ hist'[tag][y][x] # hist[tag][y][x]
     /\ IsEndTrace(Last(hist'[tag][y][x]))) =>
       /\ missing_start'[tag][y][x] =
            missing_start[tag][y][x]
              + (IF tag_credits'[tag][y][x] < 0 THEN 1 ELSE 0)
       /\ pc' = "fold"
       /\ raised' = "none"

C4_EndOnly ==
  Folded =>
    \A tag \in TagSpace, y \in YSpace, x \in XSpace :
      LET h == hist[tag][y][x]
      IN  (h # << >> /\ CountOf(h, IsStartTrace) = 0) =>
            \A op \in HeaderOps :
              Get(tile_stat[tag][y][x], op) = Last(h)[op]

C4_MissingStart == [][C4_EndStep]_vars /\ []C4_EndOnly

(***************************************************************************)
(* C5 (missing end): no "missing end stat(s)" line is printed before the   *)
(* traces are consumed; afterwards a key has one such line, naming its     *)
(* credit, exactly when its starts outnumber its ends, and no line         *)
(* otherwise; and the tile of a key with such a line holds what the tile   *)
(* of any key holds, its last end less its last start, clamped at 0 (for   *)
(* the operations that do not bear the name of a derived total, see C10).  *)
(***************************************************************************)
C5_MissingEnd ==
  /\ pc \in {"read", "fold"} =>
       \A tag \in TagSpace, y \in YSpace, x \in XSpace :
         missing_end[tag][y][x] = << >>
  /\ Folded =>
       \A tag \in TagSpace, y \in YSpace, x \in XSpace :
         LET h == hist[tag][y][x]
         IN  /\ tag_credits[tag][y][x] = Balance(h)
             /\ missing_end[tag][y][x] =
                  IF Balance(h) > 0 THEN << Balance(h) >> ELSE << >>
             /\ missing_end[tag][y][x] # << >> =>
                  \A op \in HeaderOps \ TotalNames :
                    Get(tile_stat[tag][y][x], op) =
                      Clamp(NSub(Get(tile_stat_end[tag][y][x], op),
                                 Get(tile_stat_start[tag][y][x], op)))

\* a key with two starts and one end has its line, and its tile a count;
\* the other keys have none
C5_Witness ==
  /\ pc = "done"
  /\ \E tag \in TagSpace, y \in YSpace, x \in XSpace :
       /\ missing_end[tag][y][x] = << 1 >>
       /\ CountOf(hist[tag][y][x], IsEndTrace) = 1
       /\ \E op \in HeaderOps \ {OpY, OpX, OpTag} :
            NPos(Get(tile_stat[tag][y][x], op))
       /\ \A t2 \in TagSpace, y2 \in YSpace, x2 \in XSpace :
            << t2, y2, x2 >> # << tag, y, x >> => missing_end[t2][y2][x2] = << >>

(***************************************************************************)
(* C6 (decode round trip): a tag packed from a type in {0,1,2}, a y and an *)
(* x below 64, a tile group id below 16384 and a tag below 16 decodes to   *)
(* exactly those five values.                                              *)
(***************************************************************************)
C6_RoundTrip ==
  (pc # "tag" /\ print_stat.type \in {0, 1, 2} /\ print_stat.over = 0) =>
    /\ pc = "decoded"
    /\ cst = [statType |-> print_stat.type, y |-> print_stat.y,
              x |-> print_stat.x, tg_id |-> print_stat.tg_id,
              tag |-> print_stat.tag]

\* an end tag with the largest y, tile group id and tag was decoded
C6_Witness ==
  /\ pc = "decoded"
  /\ print_stat = [type |-> END, y |-> _Y_MASK, x |-> 1, tg_id |-> _TG_ID_MASK,
                   tag |-> _TAG_MASK, over |-> 0]
  /\ cst.tg_id = _TG_ID_MASK /\ cst.y = _Y_MASK /\ cst.x = 1

(***************************************************************************)
(* C7 (decode is total, with an error for the unused code): whatever the   *)
(* other bits of the integer, bits 31..30 equal to 0, 1, 2 give a stat, a  *)
(* start, an end, with exactly one of isStat, isStart, isEnd true; bits    *)
(* 31..30 equal to 3 make the constructor raise and give no object.        *)
(***************************************************************************)
C7_DecodeTotal ==
  pc # "tag" =>
    /\ print_stat.type \in {0, 1, 2} =>
         /\ pc = "decoded"
         /\ raised = "none"
         /\ isStat(cst) <=> print_stat.type = 0
         /\ isStart(cst) <=> print_stat.type = 1
         /\ isEnd(cst) <=> print_stat.type = 2
         /\ Cardinality({b \in {"stat", "start", "end"} :
               \/ b = "stat" /\ isStat(cst)
               \/ b = "start" /\ isStart(cst)
               \/ b = "end" /\ isEnd(cst)}) = 1
    /\ print_stat.type = 3 =>
         /\ pc = "error"
         /\ raised = "ValueError"
         /\ cst = "none"

\* a tag of type 3 with every other field at its largest was refused
C7_Witness ==
  /\ pc = "error"
  /\ print_stat.type = 3
  /\ print_stat.y = _Y_MASK /\ print_stat.tg_id = _TG_ID_MASK
  /\ print_stat.tag = _TAG_MASK
  /\ cst = "none"

(***************************************************************************)
(* C8 (fatal errors produce no output): once a row has failed to convert,  *)
(* or a trace's tag has been refused, or a trace's tile lies beyond the    *)
(* lists, the run is in its error state: the parser object is not bound,   *)
(* no table was computed and no report is written, whatever was folded     *)
(* before.  Nothing follows the error state.                               *)
(***************************************************************************)
C8_NoOutput ==
  /\ raised # "none" <=> pc = "error"
  /\ raised # "none" =>
       /\ st = "unbound"
       /\ ~report_written
       /\ tile_stat = PerTile(EmptyCounter)
       /\ tile_group_stat = PerTileGroup(EmptyCounter)
       /\ manycore_stat = [tag \in TagSpace |-> EmptyCounter]
  /\ (st = "bound" \/ report_written) => raised = "none"

C8_FatalNoOutput == []C8_NoOutput /\ [][pc # "error"]_vars

\* a tag was refused after two traces were folded, one of which had a
\* warning printed
C8_Witness ==
  /\ pc = "error"
  /\ raised = "ValueError"
  /\ idx = 3
  /\ \E tag \in TagSpace, y \in YSpace, x \in XSpace :
       Len(hist[tag][y][x]) = 2 /\ missing_start[tag][y][x] = 1
  /\ st = "unbound" /\ ~report_written

(***************************************************************************)
(* C9 (negative deltas are not clamped): the tile's value of every         *)
(* operation of the schema is its last end less its last start, also when  *)
(* that is negative; likewise the value of a computed tile group is its    *)
(* accumulated end less its accumulated start, and the manycore value is   *)
(* the sum of those tile differences.  The program's Counter subtraction   *)
(* keeps positive counts only: a negative difference is stored as 0.       *)
(* (Stated for the operations that do not bear the name of a derived       *)
(* total and for the tile groups that are computed, so that neither C10    *)
(* nor C3 plays a part.)                                                   *)
(***************************************************************************)
C9_TileDiff(tag, y, x, op) ==
  NSub(Get(tile_stat_end[tag][y][x], op), Get(tile_stat_start[tag][y][x], op))

RECURSIVE C9_DiffSum(_, _, _)
C9_DiffSum(tag, op, n) ==
  IF n >= manycore_dim THEN Zero
  ELSE NAdd(C9_TileDiff(tag, n \div manycore_dim_x, n % manycore_dim_x, op),
            C9_DiffSum(tag, op, n + 1))

C9_NotClamped ==
  /\ Folded =>
       \A tag \in TagSpace, op \in HeaderOps \ TotalNames :
         /\ \A y \in YSpace, x \in XSpace :
              Get(tile_stat[tag][y][x], op) = C9_TileDiff(tag, y, x, op)
         /\ \A tg_id \in TileGroupRange(num_tile_groups[tag]) :
              Get(tile_group_stat[tag][tg_id], op) =
                NSub(Get(tile_group_stat_end[tag][tg_id], op),
                     Get(tile_group_stat_start[tag][tg_id], op))
  /\ RolledUp =>
       \A tag \in TagSpace, op \in HeaderOps \ TotalNames :
         Get(manycore_stat[tag], op) = C9_DiffSum(tag, op, 0)

(***************************************************************************)
(* C10 (derived totals): in every tile table, every tile group table and   *)
(* every manycore table, instr_total is the sum of the table's values over *)
(* the instruction operations of the schema, stall_total the sum over its  *)
(* stall operations and miss_total the sum over its miss operations.  It   *)
(* fails for a header that carries a miss_total column: parse_header       *)
(* leaves out instr_total only, so miss_total is summed into itself.       *)
(***************************************************************************)
C10_TotalsOf(t) ==
  /\ Get(t, InstrTotal) = SumOf(t, HeaderInstrs, 1)
  /\ Get(t, StallTotal) = SumOf(t, HeaderStalls, 1)
  /\ Get(t, MissTotal) = SumOf(t, HeaderMisses, 1)

C10_DerivedTotals ==
  /\ Folded =>
       \A tag \in TagSpace :
         /\ \A y \in YSpace, x \in XSpace : C10_TotalsOf(tile_stat[tag][y][x])
         /\ \A tg_id \in TgIdSpace : C10_TotalsOf(tile_group_stat[tag][tg_id])
  /\ RolledUp => \A tag \in TagSpace : C10_TotalsOf(manycore_stat[tag])

(***************************************************************************)
(* C11 (start handling): a start trace replaces the pending start of its   *)
(* key with its own full table, and is added into the pending start of its *)
(* tile group; so the pending start of a key is its last start trace, the  *)
(* pending start of a tile group is the sum of the tag's start traces that *)
(* carry it, and the tile of a key whose traces are a start S1, a start S2 *)
(* and an end E holds E - S2 for every operation of the schema.  The last  *)
(* part fails when E is below S2 on an operation: the program's            *)
(* subtraction stores 0 then (see C9).  (Stated for the operations that do *)
(* not bear the name of a derived total, so that C10 plays no part.)       *)
(***************************************************************************)
C11_Starts(h) == SelectSeq(h, IsStartTrace)

C11_Pending ==
  pc \in {"fold", "rollup", "built", "done"} =>
    /\ \A tag \in TagSpace, y \in YSpace, x \in XSpace :
         LET starts == C11_Starts(hist[tag][y][x])
         IN  tile_stat_start[tag][y][x] =
               IF starts = << >> THEN EmptyCounter ELSE Last(starts)
    /\ \A tag \in TagSpace, tg_id \in TgIdSpace, op \in HeaderOps :
         Get(tile_group_stat_start[tag][tg_id], op) =
           TraceSum(TracesOfTag(tag, 0), START, tg_id, op, 1)

C11_TwoStarts(h) ==
  /\ Len(h) = 3
  /\ IsStartTrace(h[1]) /\ IsStartTrace(h[2]) /\ IsEndTrace(h[3])

C11_LastWriteWins ==
  /\ C11_Pending
  /\ Folded =>
       \A tag \in TagSpace, y \in YSpace, x \in XSpace :
         LET h == hist[tag][y][x]
         IN  C11_TwoStarts(h) =>
               \A op \in HeaderOps \ TotalNames :
                 Get(tile_stat[tag][y][x], op) = NSub(h[3][op], h[2][op])

(***************************************************************************)
(* C12 (stat traces are ignored): a step of the fold that takes a stat     *)
(* trace (the only step that takes a trace, goes on folding and adds       *)
(* nothing to the history of the start and end traces) leaves every        *)
(* credit, every pending start and end of a tile and of a tile group, the  *)
(* tile group counts, the tables and the warnings as they were; so the     *)
(* stat traces of a file have no part in any final table or warning.       *)
(***************************************************************************)
C12_StatStep ==
  (idx' = idx + 1 /\ pc' = "fold" /\ hist' = hist) =>
    UNCHANGED << tag_credits, tile_stat_start, tile_stat_end,
                 tile_group_stat_start, tile_group_stat_end, num_tags,
                 num_tile_groups, tile_stat, tile_group_stat, manycore_stat,
                 missing_start, missing_end >>

C12_StatIgnored == [][C12_StatStep]_vars

\* the traces of every key's history, counted
RECURSIVE C12_Folded(_, _)
C12_Folded(tag, n) ==
  IF n >= manycore_dim THEN 0
  ELSE Len(hist[tag][n \div manycore_dim_x][n % manycore_dim_x])
         + C12_Folded(tag, n + 1)

RECURSIVE C12_FoldedAll(_)
C12_FoldedAll(tag) ==
  IF tag > MaxTag THEN 0 ELSE C12_Folded(tag, 0) + C12_FoldedAll(tag + 1)

\* a run is done that took three traces, one of them a stat, the others a
\* start and an end of one key, whose tile holds a count
C12_Witness ==
  /\ pc = "done"
  /\ idx = 3
  /\ C12_FoldedAll(0) = 2
  /\ \E tag \in TagSpace, y \in YSpace, x \in XSpace :
       /\ Len(hist[tag][y][x]) = 2
       /\ tag_credits[tag][y][x] = 0
       /\ \E op \in HeaderOps \ {OpY, OpX, OpTag} :
            NPos(Get(tile_stat[tag][y][x], op))

(***************************************************************************)
(* C13 (key independence): what the fold holds, and what is computed from  *)
(* it, is the merge of the folds of the keys taken apart.  For every key   *)
(* (a tag and a tile of the lists) the credit, the pending start and end,  *)
(* the "missing start" lines and the tile's table are what the key's own   *)
(* traces, in their own order, give; for every tag and tile group the      *)
(* pending sums are the sums over the tag's traces and the count is the    *)
(* number of ids its start traces carry, neither of which has an order;    *)
(* the manycore table is computed from the tile tables.  Two files that    *)
(* hold the same traces and agree on the order of every key's traces have  *)
(* the same histories per key, and so the same tables, counts and          *)
(* warnings.  It is stated of the runs that are done.                      *)
(***************************************************************************)
\* the last trace of a history that satisfies Test, as a Counter
C13_LastOf(h, Test(_)) ==
  LET s == SelectSeq(h, Test) IN IF s = << >> THEN EmptyCounter ELSE Last(s)

\* the ends of a history that leave its credit negative
C13_Warnings(h) ==
  Cardinality({i \in 1..Len(h) :
                 IsEndTrace(h[i]) /\ Balance(SubSeq(h, 1, i)) < 0})

\* the tile's table, from the key's own traces
C13_TileOf(h) ==
  WithTotals(TileDelta(C13_LastOf(h, IsEndTrace), C13_LastOf(h, IsStartTrace)),
             HeaderInstrs, HeaderStalls, HeaderMisses)

\* the sum of op over the traces of a list
RECURSIVE C13_Sum(_, _, _)
C13_Sum(h, op, i) ==
  IF i > Len(h) THEN Zero ELSE NAdd(h[i][op], C13_Sum(h, op, i + 1))

\* the traces of a list that carry the type and the tile group
C13_Carrying(h, type, tg_id) ==
  SelectSeq(h, LAMBDA t : TypeOf(t[OpTag]) = type /\ TgIdOf(t[OpTag]) = tg_id)

\* their sum, as the Counter the fold holds
C13_GroupSum(sel) ==
  IF sel = << >> THEN EmptyCounter
  ELSE [op \in HeaderOps |-> C13_Sum(sel, op, 1)]

C13_PerKey ==
  \A tag \in TagSpace, y \in YSpace, x \in XSpace :
    LET h == hist[tag][y][x]
    IN  /\ tag_credits[tag][y][x] = Balance(h)
        /\ tile_stat_start[tag][y][x] = C13_LastOf(h, IsStartTrace)
        /\ tile_stat_end[tag][y][x] = C13_LastOf(h, IsEndTrace)
        /\ missing_start[tag][y][x] = C13_Warnings(h)
        /\ tile_stat[tag][y][x] = C13_TileOf(h)
        /\ missing_end[tag][y][x] =
             IF Balance(h) > 0 THEN << Balance(h) >> ELSE << >>

C13_PerGroup ==
  \A tag \in TagSpace :
    LET h == TracesOfTag(tag, 0)
        starts == [tg_id \in TgIdSpace |->
                     C13_GroupSum(C13_Carrying(h, START, tg_id))]
        ends == [tg_id \in TgIdSpace |->
                   C13_GroupSum(C13_Carrying(h, END, tg_id))]
        count == Cardinality({tg_id \in TgIdSpace :
                                starts[tg_id] # EmptyCounter})
    IN  /\ num_tile_groups[tag] = count
        /\ tile_group_stat_start[tag] = starts
        /\ tile_group_stat_end[tag] = ends
        /\ \A tg_id \in TgIdSpace :
             tile_group_stat[tag][tg_id] =
               IF tg_id < count
                 THEN WithTotals(TileGroupDelta(ends[tg_id], starts[tg_id]),
                                 HeaderInstrs, HeaderStalls, HeaderMisses)
                 ELSE EmptyCounter
        /\ manycore_stat[tag] = ManycoreOf(tile_stat[tag], all_ops)

C13_KeyIndependence == pc = "done" => C13_PerKey /\ C13_PerGroup

\* a run is done in which one key had an end that left its credit negative
\* and then a start, and a second key of the tag a start of another tile
\* group
C13_Witness ==
  /\ pc = "done"
  /\ idx = 3
  /\ \E tag \in TagSpace :
       /\ Cardinality({k \in YSpace \X XSpace :
                         hist[tag][k[1]][k[2]] # << >>}) = 2
       /\ num_tile_groups[tag] = 2
       /\ \E y \in YSpace, x \in XSpace :
            missing_start[tag][y][x] = 1 /\ Len(hist[tag][y][x]) = 2

(***************************************************************************)
(* C14 (tile group count): once the traces are consumed, the count of a    *)
(* tag's tile groups is the number of tile group ids that the tag's start  *)
(* and end traces carry, each id counted once.  It fails for an id that    *)
(* only end traces carry: the program counts on start traces only.         *)
(***************************************************************************)
C14_WorkGroupCount ==
  Folded =>
    \A tag \in TagSpace :
      num_tile_groups[tag] =
        Cardinality({tg_id \in TgIdSpace : Observed(tag, tg_id)})

(***************************************************************************)
(* C15 (schema immutability): at every point of a run after the header is  *)
(* parsed, the lists of stat, instruction, miss and stall operations and   *)
(* their concatenation hold what parse_header built from the header.  It   *)
(* fails when the fold returns: the program appends the names of the       *)
(* derived totals to its lists.                                            *)
(***************************************************************************)
C15_SchemaImmutable ==
  /\ stats = parse_header(header).stats
  /\ instrs = parse_header(header).instrs
  /\ misses = parse_header(header).misses
  /\ stalls = parse_header(header).stalls
  /\ all_ops = AllOpsOf(header)

(***************************************************************************)
(* C16 (credit accounting): while the traces are folded and afterwards,    *)
(* the credit of every key is the number of its start traces less the     *)
(* number of its end traces folded so far; a step that folds a start adds  *)
(* 1 to the credit of the trace's key and leaves every other credit, a     *)
(* step that folds an end takes 1 from it and leaves every other credit,   *)
(* and no other step of a run that goes on changes a credit: a credit is   *)
(* never set back, also not when it is negative.                           *)
(***************************************************************************)
C16_Balance ==
  pc \in {"fold", "rollup", "built", "done"} =>
    \A tag \in TagSpace, y \in YSpace, x \in XSpace :
      tag_credits[tag][y][x] = Balance(hist[tag][y][x])

C16_Step ==
  pc' # "error" =>
    \A tag \in TagSpace, y \in YSpace, x \in XSpace :
      tag_credits'[tag][y][x] =
        IF hist'[tag][y][x] = hist[tag][y][x]
          THEN tag_credits[tag][y][x]
          ELSE IF IsStartTrace(Last(hist'[tag][y][x]))
            THEN tag_credits[tag][y][x] + 1
            ELSE tag_credits[tag][y][x] - 1

C16_CreditAccounting == []C16_Balance /\ [][C16_Step]_vars

\* a key had two ends and then a start: its credit is -1, two warnings
\* were printed for it, and the credit of the tile beside it is still 0
C16_Witness ==
  /\ pc = "fold"
  /\ \E tag \in TagSpace, y \in YSpace, x \in XSpace :
       LET h == hist[tag][y][x]
       IN  /\ Len(h) = 3
           /\ IsEndTrace(h[1]) /\ IsEndTrace(h[2]) /\ IsStartTrace(h[3])
           /\ tag_credits[tag][y][x] = 0 - 1
           /\ missing_start[tag][y][x] = 2
           /\ \E x2 \in XSpace \ {x} : tag_credits[tag][y][x2] = 0

(***************************************************************************)
(* C17 (missing start): a step that reports a missing start for a key      *)
(* folds an end of that key with no start of the key since the key's       *)
(* previous end, or since the beginning of the file: the traces of the     *)
(* key folded before it are none, or the last of them is an end.  In       *)
(* particular the second end of End, Start, End reports nothing.           *)
(***************************************************************************)
C17_Step ==
  \A tag \in TagSpace, y \in YSpace, x \in XSpace :
    missing_start'[tag][y][x] > missing_start[tag][y][x] =>
      LET h == hist[tag][y][x]
      IN  \/ h = << >>
          \/ IsEndTrace(Last(h))

C17_MissingStartWarning == [][C17_Step]_vars

(***************************************************************************)
(* C18 (dangling start): after the fold, a key that has one or more start  *)
(* traces and no end trace has a tile count of 0 for every operation of    *)
(* the header and for every total, has one missing end report that gives   *)
(* the number of its starts, and the counts of its tag over the manycore   *)
(* are what they are with the tile of the key left empty.                  *)
(***************************************************************************)
C18_Dangling(h) ==
  /\ h # << >>
  /\ \A i \in 1..Len(h) : IsStartTrace(h[i])

C18_DanglingStart ==
  Folded =>
    \A tag \in TagSpace, y \in YSpace, x \in XSpace :
      C18_Dangling(hist[tag][y][x]) =>
        /\ \A op \in HeaderOps \cup TotalNames :
             Get(tile_stat[tag][y][x], op) = Zero
        /\ missing_end[tag][y][x] = << Len(hist[tag][y][x]) >>
        /\ pc \in {"built", "done"} =>
             manycore_stat[tag] =
               ManycoreOf([tile_stat[tag] EXCEPT ![y][x] = EmptyCounter],
                          all_ops)

\* one tile has a start with a positive count and no end, the tile beside
\* it has a start and an end with a positive count over the manycore
C18_Witness ==
  /\ pc = "done"
  /\ \E tag \in TagSpace, y \in YSpace, x \in XSpace :
       LET h == hist[tag][y][x]
       IN  /\ Len(h) = 1 /\ IsStartTrace(h[1])
           /\ \E op \in HeaderOps \ TotalNames : NPos(h[1][op])
           /\ missing_end[tag][y][x] = << 1 >>
           /\ \E x2 \in XSpace \ {x} :
                /\ Len(hist[tag][y][x2]) = 2
                /\ tag_credits[tag][y][x2] = 0
           /\ \E op \in HeaderOps \ TotalNames :
                NPos(Get(manycore_stat[tag], op))

(***************************************************************************)
(* C19 (tag counting): while the traces are folded and afterwards,         *)
(* num_tags is the number of distinct tags that have at least one start    *)
(* trace among the traces folded so far.                                   *)
(***************************************************************************)
C19_StartedTags ==
  {tag \in TagSpace :
     \E y \in YSpace, x \in XSpace :
       \E i \in 1..Len(hist[tag][y][x]) : IsStartTrace(hist[tag][y][x][i])}

C19_TagCount ==
  pc \in {"fold", "rollup", "built", "done"} =>
    num_tags = Cardinality(C19_StartedTags)

(***************************************************************************)
(* C20 (grid bounds): a step of a run that goes on changes the credit, the *)
(* pending start or the pending end of the tile (y, x) only by folding a   *)
(* trace whose coordinates less the origin are (y, x); a trace whose       *)
(* coordinates less the origin lie outside the mesh changes none of them.  *)
(***************************************************************************)
C20_Step ==
  pc' # "error" =>
    \A tag \in TagSpace, y \in YSpace, x \in XSpace :
      \/ /\ tag_credits'[tag][y][x] = tag_credits[tag][y][x]
         /\ tile_stat_start'[tag][y][x] = tile_stat_start[tag][y][x]
         /\ tile_stat_end'[tag][y][x] = tile_stat_end[tag][y][x]
      \/ /\ Len(hist'[tag][y][x]) = Len(hist[tag][y][x]) + 1
         /\ relative_y(Last(hist'[tag][y][x])) = y
         /\ relative_x(Last(hist'[tag][y][x])) = x

C20_GridBounds == [][C20_Step]_vars

(***************************************************************************)
(* C21 (hierarchy consistency): in a finished run whose every end trace    *)
(* follows, on its key, a start trace of the same tile group that no       *)
(* earlier end has answered, and whose counts never go down from a start   *)
(* of a key to a later end of the key, the values of an operation or of a  *)
(* total over the tile groups of a tag add up to its value over the        *)
(* manycore.  The runs looked at are those of the profiler's header, with  *)
(* every trace on the mesh and the tile groups numbered from 0 without a   *)
(* gap, so that neither C3, C10 nor C20 plays a part.                      *)
(***************************************************************************)
C21_Ops == (HeaderOps \ {OpY, OpX, OpTag}) \cup TotalNames

\* the traces of a key's history that carry the tile group
C21_Of(h, tg_id) == SelectSeq(h, LAMBDA t : TgIdOf(t[OpTag]) = tg_id)

C21_Paired(h) ==
  \A i \in 1..Len(h) :
    IsEndTrace(h[i]) =>
      /\ Balance(C21_Of(SubSeq(h, 1, i), TgIdOf(h[i][OpTag]))) >= 0
      /\ \A j \in 1..(i - 1) :
           IsStartTrace(h[j]) =>
             \A op \in HeaderOps \ TotalNames :
               ~NNeg(NSub(h[i][op], h[j][op]))

C21_WellFormed ==
  /\ header = HeaderPlain
  /\ \A tag \in TagSpace :
       /\ \A tg_id \in TgIdSpace :
            Observed(tag, tg_id) => tg_id < num_tile_groups[tag]
       /\ \A y \in YSpace, x \in XSpace :
            LET h == hist[tag][y][x]
            IN  /\ C21_Paired(h)
                /\ \A i \in 1..Len(h) :
                     relative_y(h[i]) = y /\ relative_x(h[i]) = x

RECURSIVE C21_GroupTotal(_, _, _)
C21_GroupTotal(tag, op, tg_id) ==
  IF tg_id > MaxTgId THEN Zero
  ELSE NAdd(Get(tile_group_stat[tag][tg_id], op),
            C21_GroupTotal(tag, op, tg_id + 1))

C21_Hierarchy ==
  (pc = "done" /\ C21_WellFormed) =>
    \A tag \in TagSpace, op \in C21_Ops :
      C21_GroupTotal(tag, op, 0) = Get(manycore_stat[tag], op)

(***************************************************************************)
(* C22 (order of a pair): in a finished run the table of every tile that   *)
(* has a trace is the difference, with its totals, of the key's last end   *)
(* trace and the key's last start trace, whichever was folded first.  For  *)
(* a key                                                                   *)
(* whose traces are one start S and one end E of one tile group, in        *)
(* either order, and that has the only traces of its tag, the tables of    *)
(* the tile, of the tile groups and of the manycore are the same           *)
(* expressions of S and E in both orders.                                  *)
(***************************************************************************)
C22_Delta(S, E) ==
  WithTotals(TileDelta(E, S), HeaderInstrs, HeaderStalls, HeaderMisses)

C22_Pair(h) ==
  /\ Len(h) = 2
  /\ Balance(h) = 0
  /\ TgIdOf(h[1][OpTag]) = TgIdOf(h[2][OpTag])

C22_PairTables(tag, y, x, S, E) ==
  LET tg == TgIdOf(S[OpTag])
  IN  /\ tile_group_stat[tag] =
           [tg_id \in TgIdSpace |->
              IF tg_id >= 1 THEN EmptyCounter
              ELSE IF tg_id = tg THEN C22_Delta(S, E)
              ELSE C22_Delta(EmptyCounter, EmptyCounter)]
      /\ manycore_stat[tag] =
           ManycoreOf([yy \in YSpace |-> [xx \in XSpace |->
                         IF yy = y /\ xx = x THEN C22_Delta(S, E)
                         ELSE C22_Delta(EmptyCounter, EmptyCounter)]],
                      all_ops)

C22_OrderInsensitive ==
  pc = "done" =>
    \A tag \in TagSpace, y \in YSpace, x \in XSpace :
      LET h == hist[tag][y][x]
          S == C13_LastOf(h, IsStartTrace)
          E == C13_LastOf(h, IsEndTrace)
      IN  h # << >> =>
            /\ tile_stat[tag][y][x] = C22_Delta(S, E)
            /\ (C22_Pair(h) /\ Len(TracesOfTag(tag, 0)) = 2) =>
                 C22_PairTables(tag, y, x, S, E)

\* a run is done in which a key had an end and then a start below it, the
\* only traces of the tag: the warning is printed and the tile, the tile
\* group and the manycore hold the positive difference
C22_Witness ==
  /\ pc = "done"
  /\ \E tag \in TagSpace, y \in YSpace, x \in XSpace :
       LET h == hist[tag][y][x]
       IN  /\ C22_Pair(h) /\ IsEndTrace(h[1]) /\ IsStartTrace(h[2])
           /\ Len(TracesOfTag(tag, 0)) = 2
           /\ missing_start[tag][y][x] = 1
           /\ \E op \in HeaderOps \ ({OpY, OpX, OpTag} \cup TotalNames) :
                /\ NPos(NSub(h[1][op], h[2][op]))
                /\ Get(tile_stat[tag][y][x], op) = NSub(h[1][op], h[2][op])
                /\ Get(tile_group_stat[tag][0], op) = NSub(h[1][op], h[2][op])
                /\ Get(manycore_stat[tag], op) = NSub(h[1][op], h[2][op])

(***************************************************************************)
(* C23 (dangling start diagnosed): after the fold, a key whose last start  *)
(* trace has no end trace after it, that is whose last trace is a start,   *)
(* has a missing end report, whatever traces came before that start.       *)
(***************************************************************************)
C23_DanglingDiagnosed ==
  Folded =>
    \A tag \in TagSpace, y \in YSpace, x \in XSpace :
      LET h == hist[tag][y][x]
      IN  (h # << >> /\ IsStartTrace(Last(h))) =>
            missing_end[tag][y][x] # << >>

=============================================================================
